---- MODULE Spec2Model ----
(***************************************************************************)
(* A model of timeperiod.py (python-timeperiod2): in_period(period, dt)    *)
(* decides whether the timestamp dt lies in the period expression.         *)
(*                                                                         *)
(* Strings are sequences of one-character strings, so that the regular     *)
(* expression rewrites, the splits and the integer parsing of the source   *)
(* are computed character by character.  The interpreter modelled is       *)
(* Python 3 (setup.py declares 3.3 and 3.4): "/" is true division, whose   *)
(* result is an IEEE 754 double, computed here bit for bit, and a dict     *)
(* iterates in insertion order.  The alphabet is ASCII: the classes \s and  *)
(* \w and the whitespace int() strips are the ASCII members of Python's.   *)
(***************************************************************************)
EXTENDS Integers, Sequences, FiniteSets, TLC

VARIABLES
    expr,         \* how the input string was built (the structure behind period)
    period,       \* in_period's argument: the raw period expression
    dt,           \* in_period's argument: the timestamp
    pc,           \* position in in_period: "start", "split", "loop", "done"
    norm,         \* the local `period` after lines 115-122
    sub_periods,  \* the local `sub_periods` (line 127)
    idx,          \* 1-based position of the for loop of line 130
    result        \* what in_period returned or raised

vars == <<expr, period, dt, pc, norm, sub_periods, idx, result>>

(***************************************************************************)
(* Characters and strings                                                  *)
(***************************************************************************)
UpperChars == <<"A","B","C","D","E","F","G","H","I","J","K","L","M",
                "N","O","P","Q","R","S","T","U","V","W","X","Y","Z">>
LowerChars == <<"a","b","c","d","e","f","g","h","i","j","k","l","m",
                "n","o","p","q","r","s","t","u","v","w","x","y","z">>
DigitChars == <<"0","1","2","3","4","5","6","7","8","9">>

Range(f) == {f[i] : i \in DOMAIN f}

\* a local variable of the source: Body is what follows the assignment of v
With(v, Body(_)) == Body(v)

\* the control characters without an escape in a string: VT (0x0b) and the
\* separators FS, GS, RS, US (0x1c-0x1f), written as the characters themselves
VT == ""
FS == ""
GS == ""
RS == ""
US == ""

\* \s of the re module on a str pattern
WhiteSpace == {" ", "\t", "\n", "\r", "\f", VT, FS, GS, RS, US}
\* the whitespace int() ignores around the digits of an ASCII str
IntSpace == {" ", "\t", "\n", "\r", "\f", VT}
IsSpace(c) == c \in WhiteSpace
IsDigit(c) == c \in Range(DigitChars)
\* \w of the re module: letters, digits and the underscore
IsWord(c) == c \in Range(UpperChars) \cup Range(LowerChars) \cup Range(DigitChars) \cup {"_"}

\* str.lower() of one character
LowerChar(c) ==
    IF c \in Range(UpperChars)
    THEN LowerChars[CHOOSE i \in DOMAIN UpperChars : UpperChars[i] = c]
    ELSE c

\* period.lower() (line 122)
Lower(s) == [i \in DOMAIN s |-> LowerChar(s[i])]

\* the string without its leading whitespace: what a greedy \s* consumes
RECURSIVE SkipWs(_)
SkipWs(s) ==
    IF s = <<>> THEN s
    ELSE IF IsSpace(Head(s)) THEN SkipWs(Tail(s)) ELSE s

RECURSIVE SkipWsEnd(_)
SkipWsEnd(s) ==
    IF s = <<>> THEN s
    ELSE IF IsSpace(s[Len(s)]) THEN SkipWsEnd(SubSeq(s, 1, Len(s) - 1)) ELSE s

(***************************************************************************)
(* The normalizer: lines 115-122 of in_period                              *)
(***************************************************************************)
\* re.sub(r"^\s*|\s*$", '', period)
StripEnds(s) == SkipWsEnd(SkipWs(s))

\* re.sub(r"\s*(?={|$)", '', period): a whitespace run is removed when "{"
\* or the end of the string follows it
RECURSIVE WsBeforeBrace(_)
WsBeforeBrace(s) ==
    IF s = <<>> THEN s
    ELSE IF IsSpace(Head(s))
         THEN LET rest == SkipWs(s)
                  run  == SubSeq(s, 1, Len(s) - Len(rest))
              IN  IF rest = <<>> \/ Head(rest) = "{"
                  THEN WsBeforeBrace(rest)
                  ELSE run \o WsBeforeBrace(rest)
         ELSE <<Head(s)>> \o WsBeforeBrace(Tail(s))

\* a plausible slip: \s instead of \s*, one whitespace character removed
RECURSIVE WsAfter_one(_, _)
WsAfter_one(s, c) ==
    IF s = <<>> THEN s
    ELSE IF Head(s) = c /\ Len(s) > 1 /\ IsSpace(s[2])
         THEN <<c>> \o WsAfter_one(Tail(Tail(s)), c)
         ELSE <<Head(s)>> \o WsAfter_one(Tail(s), c)

\* re.sub(c + r"\s*", c, period), for c = "," (line 117) and c = "{" (line 119)
RECURSIVE WsAfter(_, _)
WsAfter(s, c) ==
    IF s = <<>> THEN s
    ELSE IF Head(s) = c
         THEN <<c>> \o WsAfter(SkipWs(Tail(s)), c)
         ELSE <<Head(s)>> \o WsAfter(Tail(s), c)

\* re.sub(r"\s*" + c + r"\s*", c, period), for c = "-" (line 118) and
\* c = "}" (line 120)
RECURSIVE WsAround(_, _)
WsAround(s, c) ==
    IF s = <<>> THEN s
    ELSE IF IsSpace(Head(s))
         THEN LET rest == SkipWs(s)
                  run  == SubSeq(s, 1, Len(s) - Len(rest))
              IN  IF rest # <<>> /\ Head(rest) = c
                  THEN <<c>> \o WsAround(SkipWs(Tail(rest)), c)
                  ELSE run \o WsAround(rest, c)
         ELSE IF Head(s) = c
              THEN <<c>> \o WsAround(SkipWs(Tail(s)), c)
              ELSE <<Head(s)>> \o WsAround(Tail(s), c)

\* re.sub(r"}(?=[^,])", '}|', period): "|" after every "}" that is followed
\* by a character other than ","
RECURSIVE InsertOrMarker(_)
InsertOrMarker(s) ==
    IF s = <<>> THEN s
    ELSE IF Head(s) = "}" /\ Len(s) > 1 /\ s[2] # ","
         THEN <<"}", "|">> \o InsertOrMarker(Tail(s))
         ELSE <<Head(s)>> \o InsertOrMarker(Tail(s))

\* lines 115-122, in the order of the source
Normalize(s) ==
    LET s1 == StripEnds(s)
        s2 == WsBeforeBrace(s1)
        s3 == WsAfter(s2, ",")
        s4 == WsAround(s3, "-")
        s5 == WsAfter(s4, "{")
        s6 == WsAround(s5, "}")
        s7 == InsertOrMarker(s6)
    IN  Lower(s7)

(***************************************************************************)
(* Splitting: re.split / str.split on one separator character              *)
(***************************************************************************)
\* the position of the first character of s that is in seps, 0 if none
FirstIn(s, seps) ==
    LET hits == {i \in DOMAIN s : s[i] \in seps}
    IN  IF hits = {} THEN 0 ELSE CHOOSE i \in hits : \A j \in hits : i <= j

\* re.split(',', s), s.split('|'), re.split("\s", s), s.split('-'): the
\* pieces between the separators, one piece for a string without any
RECURSIVE Split(_, _)
Split(s, seps) ==
    LET i == FirstIn(s, seps)
    IN  IF i = 0 THEN <<s>>
        ELSE <<SubSeq(s, 1, i - 1)>> \o Split(SubSeq(s, i + 1, Len(s)), seps)

(***************************************************************************)
(* Natural numbers of any size, as their digits to the base 2^15 with the  *)
(* lowest digit first and no zero as highest digit: the significand of a   *)
(* double has 53 bits                                                      *)
(***************************************************************************)
Base == 2^15

RECURSIVE BigOf(_)
BigOf(i) == IF i = 0 THEN <<>> ELSE <<i % Base>> \o BigOf(i \div Base)

RECURSIVE BigTrim(_)
BigTrim(a) ==
    IF a # <<>> /\ a[Len(a)] = 0 THEN BigTrim(SubSeq(a, 1, Len(a) - 1)) ELSE a

Digit(a, i) == IF i <= Len(a) THEN a[i] ELSE 0
Rest(a) == IF a = <<>> THEN a ELSE Tail(a)
Front(a) == SubSeq(a, 1, Len(a) - 1)

RECURSIVE BigAddC(_, _, _)
BigAddC(a, b, c) ==
    IF a = <<>> /\ b = <<>> THEN (IF c = 0 THEN <<>> ELSE <<c>>)
    ELSE With(Digit(a, 1) + Digit(b, 1) + c, LAMBDA d :
             <<d % Base>> \o BigAddC(Rest(a), Rest(b), d \div Base))
BigAdd(a, b) == BigTrim(BigAddC(a, b, 0))

\* a - b where a >= b
RECURSIVE BigSubB(_, _, _)
BigSubB(a, b, borrow) ==
    IF a = <<>> THEN <<>>
    ELSE With(a[1] - Digit(b, 1) - borrow, LAMBDA d :
             IF d < 0 THEN <<d + Base>> \o BigSubB(Tail(a), Rest(b), 1)
             ELSE <<d>> \o BigSubB(Tail(a), Rest(b), 0))
BigSub(a, b) == BigTrim(BigSubB(a, b, 0))

\* "lt", "eq" or "gt"
RECURSIVE BigCmp(_, _)
BigCmp(a, b) ==
    IF Len(a) # Len(b) THEN (IF Len(a) < Len(b) THEN "lt" ELSE "gt")
    ELSE IF a = <<>> THEN "eq"
    ELSE IF a[Len(a)] # b[Len(b)] THEN (IF a[Len(a)] < b[Len(b)] THEN "lt" ELSE "gt")
    ELSE BigCmp(BigTrim(Front(a)), BigTrim(Front(b)))

\* a * c + carry for one digit c
RECURSIVE BigMulSmallC(_, _, _)
BigMulSmallC(a, c, carry) ==
    IF a = <<>> THEN BigOf(carry)
    ELSE With(a[1] * c + carry, LAMBDA d :
             <<d % Base>> \o BigMulSmallC(Tail(a), c, d \div Base))
BigMulSmall(a, c) == BigTrim(BigMulSmallC(a, c, 0))

RECURSIVE BigMulR(_, _)
BigMulR(a, b) ==
    IF b = <<>> THEN <<>>
    ELSE BigAddC(BigMulSmallC(a, Head(b), 0), <<0>> \o BigMulR(a, Tail(b)), 0)
BigMul(a, b) == BigTrim(BigMulR(a, b))

\* quotient and remainder of a by one digit c > 0, from the highest digit down
RECURSIVE BigDivR(_, _, _)
BigDivR(a, c, r) ==
    IF a = <<>> THEN [q |-> <<>>, r |-> r]
    ELSE With(r * Base + a[Len(a)], LAMBDA n :
         With(BigDivR(Front(a), c, n % c), LAMBDA low :
             [q |-> Append(low.q, n \div c), r |-> low.r]))
BigDivSmall(a, c) ==
    With(BigDivR(a, c, 0), LAMBDA d : [q |-> BigTrim(d.q), r |-> d.r])

\* a * 2^n, and the integer part of a / 2^n
BigShl(a, n) ==
    IF a = <<>> THEN a
    ELSE [i \in 1..(n \div 15) |-> 0] \o BigMulSmall(a, 2^(n % 15))
BigShr(a, n) ==
    IF n \div 15 >= Len(a) THEN <<>>
    ELSE BigDivSmall(SubSeq(a, (n \div 15) + 1, Len(a)), 2^(n % 15)).q

\* the number of bits of a, and of its trailing zero bits (a > 0)
BitLen(a) ==
    IF a = <<>> THEN 0
    ELSE 15 * (Len(a) - 1) + (CHOOSE n \in 1..15 : 2^(n - 1) <= a[Len(a)] /\ a[Len(a)] < 2^n)
RECURSIVE TrailingZeros(_)
TrailingZeros(a) ==
    IF a[1] = 0 THEN 15 + TrailingZeros(Tail(a))
    ELSE CHOOSE n \in 0..14 : a[1] % (2^n) = 0 /\ a[1] % (2^(n + 1)) # 0

(***************************************************************************)
(* Numbers.  A Python int or float is kept as [neg, m, k], the number      *)
(* (-1)^neg * m / 2^k with m odd or k = 0: an int has k = 0, and a float   *)
(* is the double that IEEE 754 arithmetic (round to nearest, ties to even) *)
(* gives.  No subnormal and no overflow comes up: the operands are ints of *)
(* less than 32 bits and the quotients, products and sums made from them.  *)
(***************************************************************************)
Min(a, b) == IF a < b THEN a ELSE b
Max(a, b) == IF a < b THEN b ELSE a
Abs(i) == IF i < 0 THEN 0 - i ELSE i

RZero == [neg |-> FALSE, m |-> <<>>, k |-> 0]

\* m / 2^k in lowest terms
Canon(neg, m, k) ==
    IF m = <<>> THEN RZero
    ELSE With(Min(TrailingZeros(m), k), LAMBDA z :
             [neg |-> neg, m |-> BigShr(m, z), k |-> k - z])

\* the double nearest to m / 2^k, the one with the even significand on a tie
Round(neg, m, k) ==
    With(BitLen(m) - 53, LAMBDA s :
        IF s <= 0 THEN Canon(neg, m, k)
        ELSE With(BigShr(m, s), LAMBDA q :
             With(BigCmp(BigSub(m, BigShl(q, s)), BigShl(<<1>>, s - 1)), LAMBDA c :
             With(IF c = "gt" \/ (c = "eq" /\ q[1] % 2 = 1) THEN BigAdd(q, <<1>>) ELSE q,
                  LAMBDA up :
                      IF s >= k THEN Canon(neg, BigShl(up, s - k), 0)
                      ELSE Canon(neg, up, k - s)))))

\* an int
RInt(i) == [neg |-> i < 0, m |-> BigOf(Abs(i)), k |-> 0]

\* a / b of two ints under Python 3: the correctly rounded quotient.  The
\* divisors of the source are 7 and 100; b is a nonzero int below 2^15 in
\* absolute value.  The quotient is taken to 70 binary places and a last
\* bit tells whether a remainder is left.
TrueDiv(a, b) ==
    IF a = 0 THEN RZero
    ELSE With(BigDivSmall(BigShl(BigOf(Abs(a)), 70), Abs(b)), LAMBDA d :
             Round((a < 0) # (b < 0),
                   BigAdd(BigShl(d.q, 1), IF d.r = 0 THEN <<>> ELSE <<1>>),
                   71))

\* a * b and a + b where one operand is a float: the exact result, rounded
RMul(a, b) == Round(a.neg # b.neg, BigMul(a.m, b.m), a.k + b.k)

RAdd(a, b) ==
    With(Max(a.k, b.k), LAMBDA k :
    With(BigShl(a.m, k - a.k), LAMBDA am :
    With(BigShl(b.m, k - b.k), LAMBDA bm :
        IF a.neg = b.neg THEN Round(a.neg, BigAdd(am, bm), k)
        ELSE With(BigCmp(am, bm), LAMBDA c :
                 IF c = "eq" THEN RZero
                 ELSE IF c = "gt" THEN Round(a.neg, BigSub(am, bm), k)
                 ELSE Round(b.neg, BigSub(bm, am), k)))))

\* comparisons of ints and floats: exact
RCmp(a, b) ==
    IF a.neg # b.neg THEN (IF a.neg THEN "lt" ELSE "gt")
    ELSE With(BigCmp(BigShl(a.m, Max(a.k, b.k) - a.k), BigShl(b.m, Max(a.k, b.k) - b.k)),
              LAMBDA c :
                  IF ~a.neg \/ c = "eq" THEN c
                  ELSE IF c = "lt" THEN "gt" ELSE "lt")
REq(a, b) == RCmp(a, b) = "eq"
RLt(a, b) == RCmp(a, b) = "lt"
RLe(a, b) == RCmp(a, b) # "gt"

\* Python values that reach int(): a str, an int, or None
StrV(s) == [t |-> "str", s |-> s, i |-> 0]
IntV(i) == [t |-> "int", s |-> <<>>, i |-> i]
NoneV == [t |-> "none", s |-> <<>>, i |-> 0]

DigitVal(c) == (CHOOSE i \in DOMAIN DigitChars : DigitChars[i] = c) - 1

\* the string without the whitespace int() ignores at both ends
RECURSIVE IntStrip(_)
IntStrip(s) ==
    IF s = <<>> THEN s
    ELSE IF Head(s) \in IntSpace THEN IntStrip(Tail(s))
    ELSE IF s[Len(s)] \in IntSpace THEN IntStrip(SubSeq(s, 1, Len(s) - 1))
    ELSE s

\* the part of an int literal after its optional sign
Unsigned(s) == IF s # <<>> /\ s[1] \in {"+", "-"} THEN Tail(s) ELSE s

\* whether int(s) accepts the string: surrounding whitespace is ignored,
\* then an optional sign, then digits, single underscores allowed between
\* two digits; otherwise it raises ValueError
IntLiteral(s) ==
    LET b == Unsigned(IntStrip(s))
    IN  /\ b # <<>>
        /\ \A i \in DOMAIN b :
              \/ IsDigit(b[i])
              \/ /\ b[i] = "_"
                 /\ i > 1 /\ i < Len(b)
                 /\ IsDigit(b[i - 1]) /\ IsDigit(b[i + 1])

RECURSIVE DigitsVal(_, _)
DigitsVal(b, acc) ==
    IF b = <<>> THEN acc
    ELSE IF Head(b) = "_" THEN DigitsVal(Tail(b), acc)
    ELSE DigitsVal(Tail(b), 10 * acc + DigitVal(Head(b)))

\* int(v): [ok, i]; ok is FALSE where Python raises ValueError
int(v) ==
    IF v.t = "int" THEN [ok |-> TRUE, i |-> v.i]
    ELSE IF ~IntLiteral(v.s) THEN [ok |-> FALSE, i |-> 0]
    ELSE LET b == IntStrip(v.s)
             m == DigitsVal(Unsigned(b), 0)
         IN  [ok |-> TRUE, i |-> IF b[1] = "-" THEN 0 - m ELSE m]

\* str(i) of an int i >= 0: its decimal digits
RECURSIVE str(_)
str(i) ==
    IF i < 10 THEN <<DigitChars[i + 1]>>
    ELSE str(i \div 10) \o <<DigitChars[(i % 10) + 1]>>

(***************************************************************************)
(* What a scale function returns or raises                                 *)
(***************************************************************************)
\* return v
Return(v) == [exc |-> "none", val |-> v]
\* raise InvalidFormat(...): kind names the message
\*   "parse"   'Unable to parse the given time period.'
\*   "scale"   '%s is not a valid scale.'
\*   "integer" 'An integer value is required for %s.'
\*   "bounds"  '%d is not valid for %s. Valid options are between %d and %d.'
InvalidFormat(kind) == [exc |-> kind, val |-> 0]

(***************************************************************************)
(* Ranges: lines 300-344                                                   *)
(***************************************************************************)
_splitrange(range) ==
    LET lowhigh == Split(range, {"-"})
    IN  [low  |-> StrV(lowhigh[1]),
         high |-> IF Len(lowhigh) > 1 THEN StrV(lowhigh[2]) ELSE NoneV]

\* [exc, low, high]: low an int, high an int value or None
_in_min_max(low, high, min_, max_, scale) ==
    With(int(low), LAMBDA l :
        IF ~l.ok THEN [exc |-> "integer", low |-> 0, high |-> NoneV]
        ELSE IF l.i < min_ \/ l.i > max_
             THEN [exc |-> "bounds", low |-> 0, high |-> NoneV]
        ELSE IF high.t # "none"
             THEN With(int(high), LAMBDA h :
                  IF ~h.ok THEN [exc |-> "integer", low |-> 0, high |-> NoneV]
                  ELSE IF h.i < min_ \/ h.i > max_
                       THEN [exc |-> "bounds", low |-> 0, high |-> NoneV]
                  ELSE [exc |-> "none", low |-> l.i, high |-> IntV(h.i)])
        ELSE [exc |-> "none", low |-> l.i, high |-> NoneV])

\* an optional number: high, or a bound that is None
Some(r) == [some |-> TRUE, v |-> r]
None == [some |-> FALSE, v |-> RInt(0)]
OfIntV(v) == IF v.t = "none" THEN None ELSE Some(RInt(v.i))

\* a plausible slip: the wraparound range tested with "and" for "or"
_is_in_range_wrap_and(x, low, high) ==
    IF ~high.some \/ REq(low, high.v)
    THEN IF ~REq(low, x) THEN 0 ELSE 1
    ELSE IF RLt(low, high.v)
         THEN IF RLt(high.v, x) \/ RLt(x, low) THEN 0 ELSE 1
    ELSE IF RLt(high.v, low)
         THEN IF ~(RLe(low, x) /\ RLe(x, high.v)) THEN 0 ELSE 1
    ELSE 1

\* x, low numbers; high an optional number
_is_in_range(x, low, high) ==
    IF ~high.some \/ REq(low, high.v)
    THEN IF ~REq(low, x) THEN 0 ELSE 1
    ELSE IF RLt(low, high.v)
         THEN IF RLt(high.v, x) \/ RLt(x, low) THEN 0 ELSE 1
    ELSE IF RLt(high.v, low)
         THEN IF ~(RLe(low, x) \/ RLe(x, high.v)) THEN 0 ELSE 1
    ELSE 1

RECURSIVE _simple_test(_, _, _, _, _)
_simple_test(now, ranges, min_, max_, scale) ==
    IF ranges = <<>> THEN Return(0)
    ELSE With(_splitrange(Head(ranges)), LAMBDA lh :
         With(_in_min_max(lh.low, lh.high, min_, max_, scale), LAMBDA mm :
             IF mm.exc # "none" THEN InvalidFormat(mm.exc)
             ELSE IF _is_in_range(now, RInt(mm.low), OfIntV(mm.high)) = 1
                  THEN Return(1)
             ELSE _simple_test(now, Tail(ranges), min_, max_, scale)))

(***************************************************************************)
(* The timestamp: the datetime fields and methods the scale functions read *)
(***************************************************************************)
IsLeap(y) == y % 4 = 0 /\ (y % 100 # 0 \/ y % 400 = 0)

DaysInMonth(y, m) ==
    IF m = 2 THEN (IF IsLeap(y) THEN 29 ELSE 28)
    ELSE IF m \in {4, 6, 9, 11} THEN 30 ELSE 31

RECURSIVE DaysBeforeMonth(_, _)
DaysBeforeMonth(y, m) ==
    IF m = 1 THEN 0 ELSE DaysBeforeMonth(y, m - 1) + DaysInMonth(y, m - 1)

\* int(dt.strftime('%j')) (line 229): the 1-based day of the year
YearDay(t) == DaysBeforeMonth(t.year, t.month) + t.day

\* dt.toordinal(): days since 0001-01-01, that day being 1
ToOrdinal(t) ==
    LET y == t.year - 1
    IN  y * 365 + (y \div 4) - (y \div 100) + (y \div 400) + YearDay(t)

\* dt.weekday() (line 238): Monday = 0 .. Sunday = 6
Weekday(t) == (ToOrdinal(t) + 6) % 7

(***************************************************************************)
(* The symbol tables and the symbol resolver (lines 16-39, 212, 246)       *)
(***************************************************************************)
DAYS == << [name |-> <<"s","u">>, code |-> 1],
           [name |-> <<"m","o">>, code |-> 2],
           [name |-> <<"t","u">>, code |-> 3],
           [name |-> <<"w","e">>, code |-> 4],
           [name |-> <<"t","h">>, code |-> 5],
           [name |-> <<"f","r">>, code |-> 6],
           [name |-> <<"s","a">>, code |-> 7] >>

MONTHS == << [name |-> <<"j","a","n">>, code |-> 1],
             [name |-> <<"f","e","b">>, code |-> 2],
             [name |-> <<"m","a","r">>, code |-> 3],
             [name |-> <<"a","p","r">>, code |-> 4],
             [name |-> <<"m","a","y">>, code |-> 5],
             [name |-> <<"j","u","n">>, code |-> 6],
             [name |-> <<"j","u","l">>, code |-> 7],
             [name |-> <<"a","u","g">>, code |-> 8],
             [name |-> <<"s","e","p">>, code |-> 9],
             [name |-> <<"o","c","t">>, code |-> 10],
             [name |-> <<"n","o","v">>, code |-> 11],
             [name |-> <<"d","e","c">>, code |-> 12] >>

StartsWith(s, p) == Len(s) >= Len(p) /\ SubSeq(s, 1, Len(p)) = p

\* a plausible slip: only the abbreviation is replaced, the rest of the name stays
RECURSIVE SubName_abbrev_only(_, _, _)
SubName_abbrev_only(s, name, code) ==
    IF s = <<>> THEN s
    ELSE IF StartsWith(s, name)
         THEN code \o SubName_abbrev_only(SubSeq(s, Len(name) + 1, Len(s)), name, code)
         ELSE <<Head(s)>> \o SubName_abbrev_only(Tail(s), name, code)

\* re.sub("%s.*?(?=\s|-|$)" % name, code, s): every occurrence of the
\* abbreviation, with what follows it up to the next whitespace, dash or
\* the end, becomes the code
RECURSIVE SubName(_, _, _)
SubName(s, name, code) ==
    IF s = <<>> THEN s
    ELSE IF StartsWith(s, name)
         THEN LET rest == SubSeq(s, Len(name) + 1, Len(s))
                  k    == FirstIn(rest, WhiteSpace \cup {"-"})
                  tail == IF k = 0 THEN <<>> ELSE SubSeq(rest, k, Len(rest))
              IN  code \o SubName(tail, name, code)
         ELSE <<Head(s)>> \o SubName(Tail(s), name, code)

\* the loops of lines 211-212 and 245-246: one re.sub per entry of the
\* table, in the table's order
RECURSIVE Resolve(_, _)
Resolve(range, table) ==
    IF table = <<>> THEN range
    ELSE Resolve(SubName(range, Head(table).name, str(Head(table).code)), Tail(table))

(***************************************************************************)
(* The scale functions: lines 181-286                                      *)
(***************************************************************************)
\* normal_year of yr (lines 183-196): [exc, v], v an optional number.
\* A year below 100 gets the timestamp's century, dt.year / 100, added.
normal_year(year, t) ==
    IF year.t = "none" THEN [exc |-> "none", v |-> None]
    ELSE With(int(year), LAMBDA y :
             IF ~y.ok THEN [exc |-> "integer", v |-> None]
             ELSE IF y.i < 100
                  THEN LET century == TrueDiv(t.year, 100)
                       IN  [exc |-> "none",
                            v |-> Some(RAdd(RMul(RInt(100), century), RInt(y.i)))]
             ELSE [exc |-> "none", v |-> Some(RInt(y.i))])

RECURSIVE yr(_, _)
yr(ranges, t) ==
    IF ranges = <<>> THEN Return(0)
    ELSE With(_splitrange(Head(ranges)), LAMBDA lh :
         With(normal_year(lh.low, t), LAMBDA low :
             IF low.exc # "none" THEN InvalidFormat(low.exc)
             ELSE With(normal_year(lh.high, t), LAMBDA high :
                  IF high.exc # "none" THEN InvalidFormat(high.exc)
                  ELSE IF _is_in_range(RInt(t.year), low.v.v, high.v) = 1
                       THEN Return(1)
                  ELSE yr(Tail(ranges), t))))

RECURSIVE mo(_, _)
mo(ranges, t) ==
    IF ranges = <<>> THEN Return(0)
    ELSE With(_splitrange(Resolve(Head(ranges), MONTHS)), LAMBDA lh :
         With(_in_min_max(lh.low, lh.high, 1, 12, "month"), LAMBDA mm :
             IF mm.exc # "none" THEN InvalidFormat(mm.exc)
             ELSE IF _is_in_range(RInt(t.month), RInt(mm.low), OfIntV(mm.high)) = 1
                  THEN Return(1)
             ELSE mo(Tail(ranges), t)))

\* the value wk tests (line 224)
wk_week(t) == RAdd(TrueDiv(t.day - 1, 7), RInt(1))

wk(ranges, t) == _simple_test(wk_week(t), ranges, 1, 5, "week")

yd(ranges, t) == _simple_test(RInt(YearDay(t)), ranges, 1, 366, "year day")

md(ranges, t) == _simple_test(RInt(t.day), ranges, 1, 31, "day")

\* a plausible slip: without the correction of 0 to 7
wd_today_no_fix(t) == (Weekday(t) + 2) % 7

\* the value wd tests (lines 238-241)
wd_today(t) ==
    LET today == (Weekday(t) + 2) % 7
    IN  IF today = 0 THEN 7 ELSE today

RECURSIVE wd_loop(_, _)
wd_loop(ranges, t) ==
    IF ranges = <<>> THEN Return(0)
    ELSE With(_splitrange(Resolve(Head(ranges), DAYS)), LAMBDA lh :
         With(_in_min_max(lh.low, lh.high, 1, 7, "weekday"), LAMBDA mm :
             IF mm.exc # "none" THEN InvalidFormat(mm.exc)
             ELSE IF _is_in_range(RInt(wd_today(t)), RInt(mm.low), OfIntV(mm.high)) = 1
                  THEN Return(1)
             ELSE wd_loop(Tail(ranges), t)))

wd(ranges, t) == wd_loop(ranges, t)

\* normal_hour of hr (lines 259-267): [exc, v], v an int value or None
normal_hour(hour) ==
    IF hour.t = "none" THEN [exc |-> "none", v |-> NoneV]
    ELSE With(int(hour), LAMBDA h :
             IF ~h.ok THEN [exc |-> "integer", v |-> NoneV]
             ELSE [exc |-> "none", v |-> IntV(h.i)])

RECURSIVE hr(_, _)
hr(ranges, t) ==
    IF ranges = <<>> THEN Return(0)
    ELSE With(_splitrange(Head(ranges)), LAMBDA lh :
         With(normal_hour(lh.low), LAMBDA low :
             IF low.exc # "none" THEN InvalidFormat(low.exc)
             ELSE With(normal_hour(lh.high), LAMBDA high :
                  IF high.exc # "none" THEN InvalidFormat(high.exc)
                  ELSE With(_in_min_max(low.v, high.v, 0, 23, "hour"), LAMBDA mm :
                       IF mm.exc # "none" THEN InvalidFormat(mm.exc)
                       ELSE IF _is_in_range(RInt(t.hour), RInt(mm.low),
                                            OfIntV(mm.high)) = 1
                            THEN Return(1)
                       ELSE hr(Tail(ranges), t)))))

min(ranges, t) == _simple_test(RInt(t.minute), ranges, 0, 59, "minute")

sec(ranges, t) == _simple_test(RInt(t.second), ranges, 0, 59, "second")

(***************************************************************************)
(* The scale dispatch table: lines 353-372                                 *)
(***************************************************************************)
SCALES == << [code |-> <<"y","r">>,                     fn |-> "yr"],
             [code |-> <<"y","e","a","r">>,             fn |-> "yr"],
             [code |-> <<"m","o">>,                     fn |-> "mo"],
             [code |-> <<"m","o","n","t","h">>,         fn |-> "mo"],
             [code |-> <<"w","k">>,                     fn |-> "wk"],
             [code |-> <<"w","e","e","k">>,             fn |-> "wk"],
             [code |-> <<"y","d">>,                     fn |-> "yd"],
             [code |-> <<"y","d","a","y">>,             fn |-> "yd"],
             [code |-> <<"m","d">>,                     fn |-> "md"],
             [code |-> <<"m","d","a","y">>,             fn |-> "md"],
             [code |-> <<"w","d">>,                     fn |-> "wd"],
             [code |-> <<"w","d","a","y">>,             fn |-> "wd"],
             [code |-> <<"h","r">>,                     fn |-> "hr"],
             [code |-> <<"h","o","u","r">>,             fn |-> "hr"],
             [code |-> <<"m","i","n">>,                 fn |-> "min"],
             [code |-> <<"m","i","n","u","t","e">>,     fn |-> "min"],
             [code |-> <<"s","e","c">>,                 fn |-> "sec"],
             [code |-> <<"s","e","c","o","n","d">>,     fn |-> "sec"] >>

\* scale in SCALES
InSCALES(scale) == \E i \in DOMAIN SCALES : SCALES[i].code = scale

\* SCALES[scale](ranges, dt) (line 157)
CallScale(scale, ranges, t) ==
    LET fn == SCALES[CHOOSE i \in DOMAIN SCALES : SCALES[i].code = scale].fn
    IN  CASE fn = "yr"  -> yr(ranges, t)
          [] fn = "mo"  -> mo(ranges, t)
          [] fn = "wk"  -> wk(ranges, t)
          [] fn = "yd"  -> yd(ranges, t)
          [] fn = "md"  -> md(ranges, t)
          [] fn = "wd"  -> wd(ranges, t)
          [] fn = "hr"  -> hr(ranges, t)
          [] fn = "min" -> min(ranges, t)
          [] fn = "sec" -> sec(ranges, t)

(***************************************************************************)
(* _parse_scale: lines 164-178                                             *)
(***************************************************************************)
\* the end of the run of word characters that holds position i: the first
\* position after i that holds no word character (Len(s) + 1 if none)
WordRunEnd(s, i) ==
    LET ends == {j \in (i + 1)..(Len(s) + 1) : j = Len(s) + 1 \/ ~IsWord(s[j])}
    IN  CHOOSE j \in ends : \A k \in ends : j <= k

\* where re.search("(\w+?)\{(.*?)\}", s) can start: a word character whose
\* run of word characters ends at a "{" that has a "}" somewhere after it,
\* with no line feed in between ("." matches every character but LF)
MatchStarts(s) ==
    {i \in DOMAIN s :
        /\ IsWord(s[i])
        /\ LET j == WordRunEnd(s, i)
           IN  /\ j <= Len(s)
               /\ s[j] = "{"
               /\ \E k \in (j + 1)..Len(s) :
                     s[k] = "}" /\ \A n \in (j + 1)..(k - 1) : s[n] # "\n"}

\* [exc, scale, ranges]
_parse_scale(scale_exp) ==
    LET starts == MatchStarts(scale_exp)
    IN  IF starts = {}
        THEN [exc |-> "parse", scale |-> <<>>, ranges |-> <<>>]
        ELSE LET i     == CHOOSE a \in starts : \A b \in starts : a <= b
                 j     == WordRunEnd(scale_exp, i)
                 k     == j + FirstIn(SubSeq(scale_exp, j + 1, Len(scale_exp)), {"}"})
                 scale == SubSeq(scale_exp, i, j - 1)
                 range == SubSeq(scale_exp, j + 1, k - 1)
             IN  IF ~InSCALES(scale)
                 THEN [exc |-> "scale", scale |-> scale, ranges |-> <<>>]
                 ELSE [exc |-> "none", scale |-> scale,
                       ranges |-> Split(range, WhiteSpace)]

(***************************************************************************)
(* _is_in_sub_period: lines 137-161                                        *)
(***************************************************************************)
\* lines 150-153: range_lists is the dict as the sequence of its items in
\* insertion order; the key is the scale code as written
AddRanges(range_lists, scale, ranges) ==
    IF \E i \in DOMAIN range_lists : range_lists[i].scale = scale
    THEN [i \in DOMAIN range_lists |->
             IF range_lists[i].scale = scale
             THEN [scale |-> scale, ranges |-> range_lists[i].ranges \o ranges]
             ELSE range_lists[i]]
    ELSE Append(range_lists, [scale |-> scale, ranges |-> ranges])

\* the loop of lines 146-153: [exc, lists]
RECURSIVE BuildRangeLists(_, _)
BuildRangeLists(scales, range_lists) ==
    IF scales = <<>> THEN [exc |-> "none", lists |-> range_lists]
    ELSE With(_parse_scale(Head(scales)), LAMBDA p :
             IF p.exc # "none" THEN [exc |-> p.exc, lists |-> <<>>]
             ELSE BuildRangeLists(Tail(scales),
                                  AddRanges(range_lists, p.scale, p.ranges)))

\* a plausible slip: the loop returns on the first scale that matches
RECURSIVE CheckRangeLists_any(_, _)
CheckRangeLists_any(range_lists, t) ==
    IF range_lists = <<>> THEN Return(0)
    ELSE With(CallScale(Head(range_lists).scale, Head(range_lists).ranges, t),
              LAMBDA res :
                  IF res.exc # "none" THEN res
                  ELSE IF res.val = 1 THEN res
                  ELSE CheckRangeLists_any(Tail(range_lists), t))

\* the loop of lines 156-161
RECURSIVE CheckRangeLists(_, _)
CheckRangeLists(range_lists, t) ==
    IF range_lists = <<>> THEN Return(1)
    ELSE With(CallScale(Head(range_lists).scale, Head(range_lists).ranges, t),
              LAMBDA res :
                  IF res.exc # "none" THEN res
                  ELSE IF res.val # 1 THEN res
                  ELSE CheckRangeLists(Tail(range_lists), t))

\* a plausible slip: "none" grouped with "never"
_is_in_sub_period_none_false(sp, t) ==
    IF sp = <<"n","e","v","e","r">> \/ sp = <<"n","o","n","e">> THEN Return(0)
    ELSE IF sp = <<"a","l","w","a","y","s">> \/ sp = <<>>
         THEN Return(1)
    ELSE With(BuildRangeLists(Split(sp, {"|"}), <<>>), LAMBDA b :
             IF b.exc # "none" THEN InvalidFormat(b.exc)
             ELSE CheckRangeLists(b.lists, t))

_is_in_sub_period(sp, t) ==
    IF sp = <<"n","e","v","e","r">> THEN Return(0)
    ELSE IF sp = <<"n","o","n","e">> \/ sp = <<"a","l","w","a","y","s">> \/ sp = <<>>
         THEN Return(1)
    ELSE With(BuildRangeLists(Split(sp, {"|"}), <<>>), LAMBDA b :
             IF b.exc # "none" THEN InvalidFormat(b.exc)
             ELSE CheckRangeLists(b.lists, t))

(***************************************************************************)
(* in_period: lines 42-134                                                 *)
(***************************************************************************)
\* return True / return False
ReturnBool(b) == [exc |-> "none", val |-> b]
RaiseInvalidFormat(kind) == [exc |-> kind, val |-> FALSE]
NoResult == [exc |-> "pending", val |-> FALSE]

\* the loop of lines 130-134 from position i on
RECURSIVE SubPeriodLoop(_, _, _)
SubPeriodLoop(sps, i, t) ==
    IF i > Len(sps) THEN ReturnBool(FALSE)
    ELSE With(_is_in_sub_period(sps[i], t), LAMBDA r :
             IF r.exc # "none" THEN RaiseInvalidFormat(r.exc)
             ELSE IF r.val # 0 THEN ReturnBool(TRUE)
             ELSE SubPeriodLoop(sps, i + 1, t))

\* in_period as a function of its arguments
in_period(p, t) ==
    With(Normalize(p), LAMBDA n :
        IF n = <<>> THEN ReturnBool(TRUE)
        ELSE SubPeriodLoop(Split(n, {","}), 1, t))

(***************************************************************************)
(* in_period as a state machine: one action per step of its body           *)
(***************************************************************************)
\* lines 115-125: normalize, and return True for the empty expression
Normalizer ==
    /\ pc = "start"
    /\ norm' = Normalize(period)
    /\ IF norm' = <<>>
       THEN pc' = "done" /\ result' = ReturnBool(TRUE)
       ELSE pc' = "split" /\ UNCHANGED result
    /\ UNCHANGED <<expr, period, dt, sub_periods, idx>>

\* line 127
SplitSubPeriods ==
    /\ pc = "split"
    /\ sub_periods' = Split(norm, {","})
    /\ idx' = 1
    /\ pc' = "loop"
    /\ UNCHANGED <<expr, period, dt, norm, result>>

\* lines 130-132: one pass of the loop; an InvalidFormat raised by
\* _is_in_sub_period leaves in_period
CheckSubPeriod ==
    /\ pc = "loop"
    /\ idx <= Len(sub_periods)
    /\ \E r \in {_is_in_sub_period(sub_periods[idx], dt)} :
           IF r.exc # "none"
           THEN pc' = "done" /\ result' = RaiseInvalidFormat(r.exc) /\ UNCHANGED idx
           ELSE IF r.val # 0
                THEN pc' = "done" /\ result' = ReturnBool(TRUE) /\ UNCHANGED idx
                ELSE idx' = idx + 1 /\ UNCHANGED <<pc, result>>
    /\ UNCHANGED <<expr, period, dt, norm, sub_periods>>

\* line 134
ReturnFalse ==
    /\ pc = "loop"
    /\ idx > Len(sub_periods)
    /\ pc' = "done"
    /\ result' = ReturnBool(FALSE)
    /\ UNCHANGED <<expr, period, dt, norm, sub_periods, idx>>

Next == Normalizer \/ SplitSubPeriods \/ CheckSubPeriod \/ ReturnFalse

(***************************************************************************)
(* The inputs.  A period string is written from a structure: sub-periods,  *)
(* each a literal or a list of scale tests, each test a code and a list of *)
(* ranges, each range one or two bounds.  A bound carries its text and the *)
(* number the text stands for (-1: none).                                  *)
(***************************************************************************)
Bound(txt, val) == [txt |-> txt, val |-> val]
Num(n) == Bound(str(n), n)
NoBound == Bound(<<>>, 0 - 1)
One(lo) == [lo |-> lo, hi |-> NoBound, hasHi |-> FALSE]
Pair(lo, hi) == [lo |-> lo, hi |-> hi, hasHi |-> TRUE]
Test(code, ranges) == [code |-> code, ranges |-> ranges]
Tests(tests) == [lit |-> <<>>, tests |-> tests]
Literal(txt) == [lit |-> txt, tests |-> <<>>]
Expr(subs) == [subs |-> subs]

RECURSIVE JoinWith(_, _)
JoinWith(parts, sep) ==
    IF parts = <<>> THEN <<>>
    ELSE IF Len(parts) = 1 THEN parts[1]
    ELSE parts[1] \o sep \o JoinWith(Tail(parts), sep)

\* the way the docstring writes periods: 'wd {mon} hr {0-12}, wd {fri} hr {0-12}'
RenderRange(r) == IF r.hasHi THEN r.lo.txt \o <<"-">> \o r.hi.txt ELSE r.lo.txt
RenderTest(t) ==
    t.code \o <<" ", "{">>
           \o JoinWith([i \in DOMAIN t.ranges |-> RenderRange(t.ranges[i])], <<" ">>)
           \o <<"}">>
RenderSub(sp) ==
    IF sp.tests = <<>> THEN sp.lit
    ELSE JoinWith([i \in DOMAIN sp.tests |-> RenderTest(sp.tests[i])], <<" ">>)
Render(e) == JoinWith([i \in DOMAIN e.subs |-> RenderSub(e.subs[i])], <<",", " ">>)

Setup(e, p, t) ==
    /\ expr = e
    /\ period = p
    /\ dt = t
    /\ pc = "start"
    /\ norm = <<>>
    /\ sub_periods = <<>>
    /\ idx = 0
    /\ result = NoResult

Stamp(y, mon, d, h, mi, s) ==
    [year |-> y, month |-> mon, day |-> d, hour |-> h, minute |-> mi, second |-> s]

(***************************************************************************)
(* Spec: expressions of up to MaxTerms ranges over the hour and day-of-    *)
(* month scales, with literals, an unknown code and malformed bounds       *)
(***************************************************************************)
MaxTerms == 2

HR == <<"h","r">>
HOUR == <<"h","o","u","r">>
MD == <<"m","d">>
XX == <<"x","x">>
NEVER == <<"n","e","v","e","r">>
NONE == <<"n","o","n","e">>
ALWAYS == <<"a","l","w","a","y","s">>

\* 12 and 1 are in both domains, 25 is outside hr's, "a" is no integer
MainBounds == {Num(1), Num(12), Num(25), Bound(<<"a">>, 0 - 1)}

Term(code, r) == [isLit |-> FALSE, lit |-> <<>>, code |-> code, r |-> r]
LitTerm(txt) == [isLit |-> TRUE, lit |-> txt, code |-> <<>>, r |-> One(NoBound)]

BLANK == <<" ", "\n">>

\* "hr" alone is a scale test without braces; BLANK is a sub-period of
\* whitespace only
MainTerms ==
    {Term(HR, One(b)) : b \in MainBounds}
        \cup {Term(MD, One(Num(1))), Term(MD, One(Num(12)))}
        \cup {Term(HOUR, One(Num(12))), Term(XX, One(Num(1)))}
        \cup {LitTerm(l) : l \in {NEVER, NONE, ALWAYS, <<>>, BLANK, HR}}

\* how a term follows the one before it: in a new sub-period, as a new test
\* of the same sub-period, or as one more range of the same test
Joins == {"sub", "test", "range"}

RECURSIVE Build(_, _, _)
Build(subs, terms, joins) ==
    IF terms = <<>> THEN subs
    ELSE LET t == Head(terms)
             j == Head(joins)
             n == Len(subs)
         IN  IF t.isLit
             THEN Build(Append(subs, Literal(t.lit)), Tail(terms), Tail(joins))
             ELSE IF j = "sub" \/ n = 0 \/ subs[n].tests = <<>>
             THEN Build(Append(subs, Tests(<<Test(t.code, <<t.r>>)>>)),
                        Tail(terms), Tail(joins))
             ELSE IF j = "test"
             THEN Build([subs EXCEPT ![n].tests = Append(@, Test(t.code, <<t.r>>))],
                        Tail(terms), Tail(joins))
             ELSE LET k == Len(subs[n].tests)
                  IN  Build([subs EXCEPT ![n].tests[k].ranges = Append(@, t.r)],
                            Tail(terms), Tail(joins))

MainExprs ==
    UNION {{Expr(Build(<<>>, ts, js)) : ts \in [1..n -> MainTerms], js \in [1..n -> Joins]}
           : n \in 1..MaxTerms}

\* hour 12 on the 1st, and hour 1 on the 12th
MainStamps == {Stamp(2014, 2, 1, 12, 5, 0), Stamp(2014, 2, 12, 1, 5, 0)}

Init == \E e \in MainExprs, t \in MainStamps : Setup(e, Render(e), t)

Spec == Init /\ [][Next]_vars

(***************************************************************************)
(* SpecScale: one scale test with one range, for each of the 18 codes,     *)
(* with the bounds and the timestamps that exercise the scale              *)
(***************************************************************************)
CodesOf(fn) == {SCALES[i].code : i \in {k \in DOMAIN SCALES : SCALES[k].fn = fn}}

\* the ranges "a" and "a-b" over a set of bounds
RangesOver(bounds) == {One(a) : a \in bounds} \cup {Pair(a, b) : a, b \in bounds}

Nums(S) == {Num(n) : n \in S}

\* the abbreviations of a table, and longer names that start with one
Abbrevs(table) == {Bound(table[i].name, table[i].code) : i \in DOMAIN table}
DayNames ==
    Abbrevs(DAYS) \cup
    { Bound(<<"s","u","n","d","a","y">>, 1),
      Bound(<<"m","o","n","d","a","y">>, 2),
      Bound(<<"t","u","e","s">>, 3),
      Bound(<<"w","e","d">>, 4),
      Bound(<<"t","h","u","r","s","d","a","y">>, 5),
      Bound(<<"f","r","i">>, 6),
      Bound(<<"s","a","t","u","r","d","a","y">>, 7) }
MonthNames ==
    { Bound(<<"j","a","n","u","a","r","y">>, 1),
      Bound(<<"m","a","r","c","h">>, 3),
      Bound(<<"s","e","p","t","e","m","b","e","r">>, 9),
      Bound(<<"d","e","c","e","m","b","e","r">>, 12) }

\* 100 * (dt.year / 100) is dt.year again in 2000, 2013, 2014 and 2016, and
\* 2014.9999999999998 in 2015
YearStamps == {Stamp(y, 6, 15, 12, 0, 0) : y \in {2000, 2013, 2014, 2015, 2016}}
MonthStamps == {Stamp(2014, m, 15, 12, 0, 0) : m \in 1..12}
\* January 2014: the 1st is a Wednesday
DayStamps == {Stamp(2014, 1, d, 12, 0, 0) : d \in 1..31}
WeekStamps == {Stamp(2014, 1, d, 12, 0, 0) : d \in 1..7}
YearDayStamps ==
    { Stamp(2014, 1, 1, 12, 0, 0), Stamp(2014, 2, 11, 12, 0, 0),
      Stamp(2014, 3, 1, 12, 0, 0), Stamp(2016, 3, 1, 12, 0, 0),
      Stamp(2014, 12, 31, 12, 0, 0), Stamp(2016, 12, 31, 12, 0, 0) }
HourStamps == {Stamp(2014, 2, 11, h, 5, 0) : h \in {0, 8, 9, 12, 16, 17, 23}}
MinuteStamps == {Stamp(2014, 2, 11, 12, m, 0) : m \in {0, 29, 30, 59}}
SecondStamps == {Stamp(2014, 2, 11, 12, 5, x) : x \in {0, 29, 30, 59}}

ScaleRanges(fn) ==
    CASE fn = "yr"  -> RangesOver(Nums({0, 13, 14, 15, 99, 100, 2000, 2013, 2014, 2016}))
      [] fn = "mo"  -> RangesOver(Nums({1, 2, 6, 12})) \cup RangesOver(Abbrevs(MONTHS))
                           \cup RangesOver(MonthNames)
      [] fn = "wk"  -> RangesOver(Nums(1..5))
      [] fn = "yd"  -> RangesOver(Nums({1, 42, 60, 61, 365, 366}))
      [] fn = "md"  -> RangesOver(Nums({1, 11, 28, 31}))
      [] fn = "wd"  -> RangesOver(Nums(1..7)) \cup RangesOver(DayNames)
      [] fn = "hr"  -> RangesOver(Nums({0, 9, 12, 16, 23}))
      [] fn = "min" -> RangesOver(Nums({0, 30, 59}))
      [] fn = "sec" -> RangesOver(Nums({0, 30, 59}))

ScaleStamps(fn) ==
    CASE fn = "yr"  -> YearStamps
      [] fn = "mo"  -> MonthStamps
      [] fn = "wk"  -> DayStamps
      [] fn = "yd"  -> YearDayStamps
      [] fn = "md"  -> DayStamps
      [] fn = "wd"  -> WeekStamps
      [] fn = "hr"  -> HourStamps
      [] fn = "min" -> MinuteStamps
      [] fn = "sec" -> SecondStamps

ScaleFns == {SCALES[i].fn : i \in DOMAIN SCALES}

InitScale ==
    \E fn \in ScaleFns :
        \E c \in CodesOf(fn), r \in ScaleRanges(fn), t \in ScaleStamps(fn) :
            \E e \in {Expr(<<Tests(<<Test(c, <<r>>)>>)>>)} :
                Setup(e, Render(e), t)

SpecScale == InitScale /\ [][Next]_vars

(***************************************************************************)
(* SpecNorm: the normalizer alone, on every string of up to MaxLen         *)
(* characters of a small alphabet and on the expressions of Spec           *)
(***************************************************************************)
MaxLen == 4

NormChars == {" ", "\n", "{", "}", ",", "-", "|", "a", "A"}

NormStrings == UNION {[1..n -> NormChars] : n \in 0..MaxLen}

\* periods of one or two terms, as the docstring writes them
NormTerms == {Term(HR, One(Num(12))), Term(MD, Pair(Num(1), Num(12))), LitTerm(NEVER)}
NormExprs ==
    UNION {{Expr(Build(<<>>, ts, js)) : ts \in [1..n -> NormTerms], js \in [1..n -> Joins]}
           : n \in {1, 2}}

InitNorm ==
    \E p \in NormStrings \cup {Render(e) : e \in NormExprs} :
        Setup(Expr(<<>>), p, Stamp(2014, 2, 11, 12, 5, 0))

NextNorm == Normalizer

SpecNorm == InitNorm /\ [][NextNorm]_vars

(***************************************************************************)
(* The statements of the specification, in its own terms                   *)
(***************************************************************************)
\* the scales of the specification: both codes, and the domain of the bounds
ScaleTable ==
    << [short |-> <<"y","r">>,     long |-> <<"y","e","a","r">>,         kind |-> "year",   dom |-> FALSE, min |-> 0, max |-> 0],
       [short |-> <<"m","o">>,     long |-> <<"m","o","n","t","h">>,     kind |-> "month",  dom |-> TRUE,  min |-> 1, max |-> 12],
       [short |-> <<"w","k">>,     long |-> <<"w","e","e","k">>,         kind |-> "week",   dom |-> TRUE,  min |-> 1, max |-> 5],
       [short |-> <<"y","d">>,     long |-> <<"y","d","a","y">>,         kind |-> "yday",   dom |-> TRUE,  min |-> 1, max |-> 366],
       [short |-> <<"m","d">>,     long |-> <<"m","d","a","y">>,         kind |-> "mday",   dom |-> TRUE,  min |-> 1, max |-> 31],
       [short |-> <<"w","d">>,     long |-> <<"w","d","a","y">>,         kind |-> "wday",   dom |-> TRUE,  min |-> 1, max |-> 7],
       [short |-> <<"h","r">>,     long |-> <<"h","o","u","r">>,         kind |-> "hour",   dom |-> TRUE,  min |-> 0, max |-> 23],
       [short |-> <<"m","i","n">>, long |-> <<"m","i","n","u","t","e">>, kind |-> "minute", dom |-> TRUE,  min |-> 0, max |-> 59],
       [short |-> <<"s","e","c">>, long |-> <<"s","e","c","o","n","d">>, kind |-> "second", dom |-> TRUE,  min |-> 0, max |-> 59] >>

Known(code) == \E i \in DOMAIN ScaleTable : code \in {ScaleTable[i].short, ScaleTable[i].long}
RowOf(code) == ScaleTable[CHOOSE i \in DOMAIN ScaleTable :
                              code \in {ScaleTable[i].short, ScaleTable[i].long}]
KindOf(code) == IF Known(code) THEN RowOf(code).kind ELSE "unknown"

\* Sunday = 1 .. Saturday = 7, from the native index Monday = 0 .. Sunday = 6
SundayFirst(n) == IF (n + 2) % 7 = 0 THEN 7 ELSE (n + 2) % 7

\* the value of the timestamp on a scale, as the specification defines it
SpecValue(kind, t) ==
    CASE kind = "year"   -> t.year
      [] kind = "month"  -> t.month
      [] kind = "week"   -> 1 + ((t.day - 1) \div 7)
      [] kind = "yday"   -> YearDay(t)
      [] kind = "mday"   -> t.day
      [] kind = "wday"   -> SundayFirst(Weekday(t))
      [] kind = "hour"   -> t.hour
      [] kind = "minute" -> t.minute
      [] kind = "second" -> t.second

\* the value the scale function of the code hands to _is_in_range
TestedValue(kind, t) ==
    CASE kind = "year"   -> RInt(t.year)
      [] kind = "month"  -> RInt(t.month)
      [] kind = "week"   -> wk_week(t)
      [] kind = "yday"   -> RInt(YearDay(t))
      [] kind = "mday"   -> RInt(t.day)
      [] kind = "wday"   -> RInt(wd_today(t))
      [] kind = "hour"   -> RInt(t.hour)
      [] kind = "minute" -> RInt(t.minute)
      [] kind = "second" -> RInt(t.second)

\* the range rule: exact match, ordinary range, wraparound range
RangeRule(x, lo, hi, hasHi) ==
    IF ~hasHi \/ hi = lo THEN REq(x, RInt(lo))
    ELSE IF hi > lo THEN RLe(RInt(lo), x) /\ RLe(x, RInt(hi))
    ELSE RLe(RInt(lo), x) \/ RLe(x, RInt(hi))

\* a bound written as the decimal digits of its number
Numeric(b) == b.val >= 0 /\ b.txt = str(b.val)
NumericRange(r) == Numeric(r.lo) /\ (r.hasHi => Numeric(r.hi))

BoundOk(code, b) ==
    /\ b.val >= 0
    /\ RowOf(code).dom => (RowOf(code).min <= b.val /\ b.val <= RowOf(code).max)
RangeOk(code, r) == BoundOk(code, r.lo) /\ (r.hasHi => BoundOk(code, r.hi))
RangeMatches(code, r, t) ==
    RangeRule(RInt(SpecValue(KindOf(code), t)), r.lo.val, r.hi.val, r.hasHi)

\* a list of ranges passes when one of them matches and no malformed range
\* is written before it
Passes(code, ranges, t) ==
    \E j \in DOMAIN ranges :
        /\ RangeMatches(code, ranges[j], t)
        /\ \A k \in 1..j : RangeOk(code, ranges[k])

FixedTrue == {NONE, ALWAYS, <<>>, BLANK}

TestPasses(test, t) == Known(test.code) /\ Passes(test.code, test.ranges, t)
EveryTestPasses(sp, t) == \A i \in DOMAIN sp.tests : TestPasses(sp.tests[i], t)

\* a sub-period taken alone: a literal by its fixed value, one scale test by
\* the range rule, several by evaluating the expression that holds nothing else
SubMatches(sp, t) ==
    IF sp.tests = <<>> THEN sp.lit \in FixedTrue
    ELSE IF Len(sp.tests) = 1 THEN TestPasses(sp.tests[1], t)
    ELSE in_period(Render(Expr(<<sp>>)), t) = ReturnBool(TRUE)

\* the k-th test passes, or another test of the sub-period for its scale does
SameScalePasses(sp, k, t) ==
    \E j \in DOMAIN sp.tests :
        /\ KindOf(sp.tests[j].code) = KindOf(sp.tests[k].code)
        /\ TestPasses(sp.tests[j], t)

WellFormedSub(sp) ==
    IF sp.tests = <<>> THEN sp.lit \in FixedTrue \cup {NEVER}
    ELSE \A i \in DOMAIN sp.tests :
            /\ Known(sp.tests[i].code)
            /\ \A j \in DOMAIN sp.tests[i].ranges :
                  RangeOk(sp.tests[i].code, sp.tests[i].ranges[j])
WellFormed(e) == \A i \in DOMAIN e.subs : WellFormedSub(e.subs[i])

\* what in_period found for the i-th sub-period: it returned true for it, or
\* it went past it
Accepted(i) == pc = "done" /\ result = ReturnBool(TRUE) /\ idx = i
Rejected(i) == pc \in {"loop", "done"} /\ i < idx

Done == pc = "done"

(***************************************************************************)
(* Spec: the claims about whole expressions                                *)
(***************************************************************************)
\* C2 (as stated): a format error anywhere in the expression makes in_period
\* raise InvalidFormat, whatever else in the expression matches.
C2_ErrorAnywhereRaises ==
    (Done /\ ~WellFormed(expr)) => result.exc # "none"

\* C3: for a well-formed expression in_period returns true iff at least one
\* of its sub-periods matches, false otherwise; "never" never matches,
\* "none", "always" and the empty (or blank) sub-period always match.
C3_OrOfSubPeriods ==
    (Done /\ WellFormed(expr)) =>
        result = ReturnBool(\E i \in DOMAIN expr.subs : SubMatches(expr.subs[i], dt))

\* a second sub-period matched after the first, "never", did not
C3_SecondMatches ==
    /\ Done /\ WellFormed(expr) /\ result = ReturnBool(TRUE)
    /\ Len(expr.subs) = 2 /\ idx = 2
    /\ expr.subs[1].lit = NEVER /\ expr.subs[1].tests = <<>>
    /\ expr.subs[2].tests # <<>>

\* C4 (as stated): a sub-period of scale tests matches iff the timestamp
\* passes every one of its scale tests.
C4_AndOfTests ==
    \A i \in DOMAIN expr.subs :
        (expr.subs[i].tests # <<>> /\ WellFormedSub(expr.subs[i])) =>
            /\ Accepted(i) => EveryTestPasses(expr.subs[i], dt)
            /\ Rejected(i) => ~EveryTestPasses(expr.subs[i], dt)

\* C4 (amended): a sub-period of scale tests matches if the timestamp passes
\* every one of its scale tests, and only if every one of its scale tests
\* passes or is accompanied by a passing test for the same scale (tests for
\* one scale accumulate); for tests on pairwise different scales that is the
\* AND of the tests.
C4_AndAcrossScales ==
    \A i \in DOMAIN expr.subs :
        expr.subs[i].tests # <<>> =>
            /\ Accepted(i) =>
                  \A k \in DOMAIN expr.subs[i].tests : SameScalePasses(expr.subs[i], k, dt)
            /\ Rejected(i) => ~EveryTestPasses(expr.subs[i], dt)

\* "hr {12} hr {1}" at hour 12: accepted, though the test hr {1} fails
C4_PooledAccepted ==
    /\ Accepted(1) /\ WellFormedSub(expr.subs[1])
    /\ Len(expr.subs[1].tests) = 2
    /\ expr.subs[1].tests[1].code = expr.subs[1].tests[2].code
    /\ ~EveryTestPasses(expr.subs[1], dt)

\* the sub-period with its first two tests made one test of both range lists
MergeFirstTwo(e) ==
    Expr(<<Tests(<<Test(e.subs[1].tests[1].code,
                        e.subs[1].tests[1].ranges \o e.subs[1].tests[2].ranges)>>)>>)

\* C5 (as stated): two well-formed tests for the same scale, whichever of its
\* two codes each is written with, behave as one test with the concatenated
\* ranges.
C5_SameScaleAccumulates ==
    (/\ Done /\ WellFormed(expr)
     /\ Len(expr.subs) = 1
     /\ Len(expr.subs[1].tests) = 2
     /\ Known(expr.subs[1].tests[1].code)
     /\ KindOf(expr.subs[1].tests[1].code) = KindOf(expr.subs[1].tests[2].code))
        => result = in_period(Render(MergeFirstTwo(expr)), dt)

(***************************************************************************)
(* SpecScale: the claims about one scale test with one range               *)
(***************************************************************************)
TheTest == expr.subs[1].tests[1]
TheRange == TheTest.ranges[1]
TheKind == KindOf(TheTest.code)

\* a year bound that the two-digit expansion leaves alone
FullYears(r) == r.lo.val >= 100 /\ (r.hasHi => r.hi.val >= 100)

\* C1: on every scale a numeric range within the domain matches the value x
\* the scale tests by the one rule: x = low when high is absent or equal to
\* low, low <= x <= high when high > low, x >= low or x <= high when
\* high < low; the year scale included.
C1_OneRangeRule ==
    (/\ Done
     /\ NumericRange(TheRange) /\ RangeOk(TheTest.code, TheRange)
     /\ TheKind = "year" => FullYears(TheRange))
        => result = ReturnBool(RangeRule(TestedValue(TheKind, dt), TheRange.lo.val,
                                         TheRange.hi.val, TheRange.hasHi))

\* "yr {2016-2013}" in 2000: the year scale wraps around
C1_YearWraps ==
    /\ Done /\ TheKind = "year" /\ TheRange.hasHi
    /\ FullYears(TheRange) /\ TheRange.hi.val < TheRange.lo.val
    /\ RLt(TestedValue("year", dt), RInt(TheRange.hi.val))
    /\ result = ReturnBool(TRUE)

\* the range with every bound written as the number of its name
Numbered(r) == IF r.hasHi THEN Pair(Num(r.lo.val), Num(r.hi.val)) ELSE One(Num(r.lo.val))
NumberedExpr == Expr(<<Tests(<<Test(TheTest.code, <<Numbered(TheRange)>>)>>)>>)

\* C6: a month or weekday range written with abbreviations, or with longer
\* names that start with one, gives the result of the range written with the
\* numbers of the abbreviations.
C6_NamesAsNumbers ==
    (Done /\ ~NumericRange(TheRange)) =>
        /\ result.exc = "none"
        /\ result = in_period(Render(NumberedExpr), dt)

\* "wd {saturday-monday}" matched on a Sunday
C6_LongNamesMatch ==
    /\ Done /\ TheKind = "wday" /\ TheRange.hasHi
    /\ TheRange.lo.txt = <<"s","a","t","u","r","d","a","y">>
    /\ TheRange.hi.txt = <<"m","o","n","d","a","y">>
    /\ Weekday(dt) = 6
    /\ result = ReturnBool(TRUE)

\* C8 (as stated): a year bound y below 100 becomes y + 100 * (year div 100),
\* so "yr {14}" matches in 2014 and "yr {13}", "yr {15}" do not.
C8_TwoDigitYear ==
    (Done /\ TheKind = "year" /\ ~TheRange.hasHi /\ TheRange.lo.val < 100) =>
        result = ReturnBool(TheRange.lo.val + 100 * (dt.year \div 100) = dt.year)

\* C9 (as stated): the week value is the integer 1 + ((day - 1) div 7), in
\* 1..5, and "wk {n}" matches exactly the days 7(n-1)+1 .. 7n of the month.
C9_WeekOfMonth ==
    (Done /\ TheKind = "week") =>
        /\ wk_week(dt) = RInt(SpecValue("week", dt))
        /\ SpecValue("week", dt) \in 1..5
        /\ ~TheRange.hasHi =>
              result = ReturnBool(dt.day \in (7 * (TheRange.lo.val - 1) + 1)..(7 * TheRange.lo.val))

\* C10: the weekday tested is (n + 2) mod 7 with 0 replaced by 7 for the native
\* index n (Sunday = 1 .. Saturday = 7), a bijection of 0..6 onto 1..7; so
\* "wd {b}" matches on the day numbered b, and "wd {fr-mo}" on Friday,
\* Saturday, Sunday and Monday only.
C10_SundayFirst ==
    (Done /\ TheKind = "wday") =>
        /\ wd_today(dt) = SundayFirst(Weekday(dt))
        /\ {wd_today(t) : t \in WeekStamps} = 1..7
        /\ (NumericRange(TheRange) /\ ~TheRange.hasHi) =>
              result = ReturnBool(TheRange.lo.val = SundayFirst(Weekday(dt)))
        /\ RenderRange(TheRange) = <<"f","r","-","m","o">> =>
              result = ReturnBool(Weekday(dt) \in {4, 5, 6, 0})

\* "wd {fr-mo}" matched on a Saturday, the day the correction of 0 to 7 is for
C10_SaturdayInFrMo ==
    /\ Done /\ TheKind = "wday"
    /\ RenderRange(TheRange) = <<"f","r","-","m","o">>
    /\ Weekday(dt) = 5
    /\ result = ReturnBool(TRUE)

(***************************************************************************)
(* SpecNorm: the claim about the normalizer                                *)
(***************************************************************************)
\* a closing brace followed by a character other than a comma
BraceThenOther(s) == \E i \in 1..(Len(s) - 1) : s[i] = "}" /\ s[i + 1] # ","

\* C7 (as stated): normalizing the output of the normalizer changes nothing.
C7_Idempotent == pc # "start" => Normalize(norm) = norm

\* C7 (amended): normalizing the output of the normalizer changes nothing
\* exactly when no closing brace of it is followed by a character other than
\* a comma (each sub-period holds at most one scale test); otherwise the
\* second pass differs from the first by one more '|' after each such brace.
C7_IdempotentUpToMarker ==
    pc # "start" =>
        /\ ~BraceThenOther(norm) => Normalize(norm) = norm
        /\ BraceThenOther(norm) =>
              Normalize(norm) = InsertOrMarker(norm) /\ Normalize(norm) # norm

\* "hr {12 1} md {1}, never": the second pass writes "hr{12 1}||md{1},never"
C7_SecondMarker ==
    /\ pc # "start"
    /\ period # norm
    /\ \E i \in 1..(Len(norm) - 2) : norm[i] = "}" /\ norm[i + 1] = "|" /\ norm[i + 2] # "|"
    /\ \E i \in 1..(Len(norm) - 1) : norm[i] = "}" /\ norm[i + 1] = ","

====
